---- MODULE Spec2Model ----
(***************************************************************************)
(* Broadcast delivery engine of Pars_cto: the job handler                  *)
(* handleBroadcastJob (queue/jobHandlers/audience.handler.ts), the error   *)
(* classifier, the pacing controller (AntiSpamService), the progress       *)
(* reporter and the campaign store operations it calls.                    *)
(*                                                                         *)
(* One action per await point of the handler; the synchronous code that    *)
(* follows an await up to the next one belongs to the same action.         *)
(***************************************************************************)
EXTENDS Integers, Sequences, FiniteSets, TLC

(***************************************************************************)
(* Bounds of the model.                                                    *)
(***************************************************************************)
MaxRecipients == 3      \* longest recipient list of a job
MaxFaults == 1          \* store / queue / session calls that may reject in one attempt
MaxRequests == 2        \* requests to the start and retry routes of one campaign
MaxAttemptsStarted == 2 \* invocations of the handler for one campaign
MaxTextLen == 2         \* tokens of an error text given to the classifier
MaxHistory == 4         \* sends recorded by a pacing controller
MaxPending == 2         \* sendSnapshot calls of one stream awaiting the progress read

(***************************************************************************)
(* Texts.  An error message or a recipient handle is a sequence of tokens; *)
(* a token is a word optionally followed by "_<digits>" (n >= 0), so that  *)
(* String.includes and the FLOOD_WAIT_(\d+) match are computed on content. *)
(***************************************************************************)
NoNum == -1

Tok(w) == [w |-> w, n |-> NoNum]

TokNum(w, k) == [w |-> w, n |-> k]

includes(text, w) == \E i \in 1..Len(text) : text[i].w = w

\* errorMessage.match(/FLOOD_WAIT_(\d+)/): index of the first match, 0 if none
FirstFloodMatch(text) ==
    IF \E i \in 1..Len(text) : text[i].w = "FLOOD_WAIT" /\ text[i].n # NoNum
    THEN CHOOSE i \in 1..Len(text) :
            /\ text[i].w = "FLOOD_WAIT" /\ text[i].n # NoNum
            /\ \A j \in 1..(i - 1) : ~(text[j].w = "FLOOD_WAIT" /\ text[j].n # NoNum)
    ELSE 0

\* an Error object: errorMessage is <<>> when the property is absent
MkError(msg) == [errorMessage |-> <<>>, message |-> msg]

DefaultFloodWaitSeconds == 30

\* variant of classifyTelegramError: PEER_ID_INVALID is tested before FLOOD_WAIT
classifyTelegramError_PeerFirst(err) ==
    LET errorMessage == IF err.errorMessage # <<>> THEN err.errorMessage ELSE err.message
        m == FirstFloodMatch(errorMessage)
    IN  IF includes(errorMessage, "PEER_ID_INVALID")
        THEN [type |-> "PEER_ID_INVALID", isPermanent |-> TRUE, isFloodWait |-> FALSE,
              floodWaitSeconds |-> 0]
        ELSE IF includes(errorMessage, "FLOOD_WAIT")
        THEN [type |-> "FLOOD_WAIT", isPermanent |-> FALSE, isFloodWait |-> TRUE,
              floodWaitSeconds |-> IF m # 0 THEN errorMessage[m].n ELSE DefaultFloodWaitSeconds]
        ELSE IF includes(errorMessage, "USER_RESTRICTED")
        THEN [type |-> "USER_RESTRICTED", isPermanent |-> TRUE, isFloodWait |-> FALSE,
              floodWaitSeconds |-> 0]
        ELSE IF includes(errorMessage, "USER_IS_BOT")
        THEN [type |-> "USER_IS_BOT", isPermanent |-> TRUE, isFloodWait |-> FALSE,
              floodWaitSeconds |-> 0]
        ELSE IF includes(errorMessage, "SESSION_EXPIRED")
                \/ includes(errorMessage, "AUTH_KEY_UNREGISTERED")
        THEN [type |-> "SESSION_EXPIRED", isPermanent |-> FALSE, isFloodWait |-> FALSE,
              floodWaitSeconds |-> 0]
        ELSE IF includes(errorMessage, "CHAT_WRITE_FORBIDDEN")
        THEN [type |-> "CHAT_WRITE_FORBIDDEN", isPermanent |-> TRUE, isFloodWait |-> FALSE,
              floodWaitSeconds |-> 0]
        ELSE [type |-> "UNKNOWN", isPermanent |-> FALSE, isFloodWait |-> FALSE,
              floodWaitSeconds |-> 0]

\* classifyTelegramError, audience.handler.ts:92-127
classifyTelegramError(err) ==
    LET errorMessage == IF err.errorMessage # <<>> THEN err.errorMessage ELSE err.message
        m == FirstFloodMatch(errorMessage)
    IN  IF includes(errorMessage, "FLOOD_WAIT")
        THEN [type |-> "FLOOD_WAIT", isPermanent |-> FALSE, isFloodWait |-> TRUE,
              floodWaitSeconds |-> IF m # 0 THEN errorMessage[m].n ELSE DefaultFloodWaitSeconds]
        ELSE IF includes(errorMessage, "PEER_ID_INVALID")
        THEN [type |-> "PEER_ID_INVALID", isPermanent |-> TRUE, isFloodWait |-> FALSE,
              floodWaitSeconds |-> 0]
        ELSE IF includes(errorMessage, "USER_RESTRICTED")
        THEN [type |-> "USER_RESTRICTED", isPermanent |-> TRUE, isFloodWait |-> FALSE,
              floodWaitSeconds |-> 0]
        ELSE IF includes(errorMessage, "USER_IS_BOT")
        THEN [type |-> "USER_IS_BOT", isPermanent |-> TRUE, isFloodWait |-> FALSE,
              floodWaitSeconds |-> 0]
        ELSE IF includes(errorMessage, "SESSION_EXPIRED")
                \/ includes(errorMessage, "AUTH_KEY_UNREGISTERED")
        THEN [type |-> "SESSION_EXPIRED", isPermanent |-> FALSE, isFloodWait |-> FALSE,
              floodWaitSeconds |-> 0]
        ELSE IF includes(errorMessage, "CHAT_WRITE_FORBIDDEN")
        THEN [type |-> "CHAT_WRITE_FORBIDDEN", isPermanent |-> TRUE, isFloodWait |-> FALSE,
              floodWaitSeconds |-> 0]
        ELSE [type |-> "UNKNOWN", isPermanent |-> FALSE, isFloodWait |-> FALSE,
              floodWaitSeconds |-> 0]

NoClassification ==
    [type |-> "NONE", isPermanent |-> FALSE, isFloodWait |-> FALSE, floodWaitSeconds |-> 0]

(***************************************************************************)
(* Pacing controller: AntiSpamService, antiSpam.service.ts.                *)
(* Delays are integers in ms; intermediate products are fixed-point.       *)
(***************************************************************************)
BASE_DELAY_MS == 500

MAX_DELAY_MS == 5000

FLOOD_WAIT_PENALTY == 3

\* JITTER_PERCENT = 0.2 = 1 / JitterDivisor
JitterDivisor == 5

\* round(1000 * BACKOFF_MULTIPLIER ^ (f / t)) with BACKOFF_MULTIPLIER = 1.5,
\* BackoffTable[t][f + 1] for a history of t sends of which f failed
BackoffTable ==
    << <<1000, 1500>>,
       <<1000, 1225, 1500>>,
       <<1000, 1145, 1310, 1500>>,
       <<1000, 1107, 1225, 1355, 1500>>,
       <<1000, 1084, 1176, 1275, 1383, 1500>>,
       <<1000, 1070, 1145, 1225, 1310, 1402, 1500>> >>

\* Math.pow(BACKOFF_MULTIPLIER, Math.max(0, failureRate)) in 1/1000
backoffFactor(successCount, failureCount) ==
    IF successCount + failureCount > 0
    THEN BackoffTable[successCount + failureCount][failureCount + 1]
    ELSE 1000

NewAntiSpam(age) == [accountAge |-> age, successCount |-> 0, failureCount |-> 0]

\* config.accountAge when the configuration names no age
NotConfigured == -1

\* days from which an account counts as established, antiSpam.service.ts:25
EstablishedAfterDays == 7

\* variant of getBaseDelay: an account of exactly a week still counts as young
getBaseDelay_WeekInclusive(as) ==
    LET accountAge == IF as.accountAge = NotConfigured THEN 0 ELSE as.accountAge
    IN  IF accountAge = 0 THEN BASE_DELAY_MS * 2
        ELSE IF accountAge <= EstablishedAfterDays THEN (BASE_DELAY_MS * 3) \div 2
        ELSE BASE_DELAY_MS

\* getBaseDelay, antiSpam.service.ts:20-29; accountAge = config.accountAge ?? 0
getBaseDelay(as) ==
    LET accountAge == IF as.accountAge = NotConfigured THEN 0 ELSE as.accountAge
    IN  IF accountAge = 0 THEN BASE_DELAY_MS * 2
        ELSE IF accountAge < EstablishedAfterDays THEN (BASE_DELAY_MS * 3) \div 2
        ELSE BASE_DELAY_MS

\* Math.random() - 0.5) * 2 in 1/1000: the draws of the jitter
JitterDraws == {-1000, 0, 999}

\* variant of calculateDelay: the result is rounded but not clamped to MAX_DELAY_MS
calculateDelay_Unclamped(as, isFloodWait, u) ==
    LET base == getBaseDelay(as)
        d10 == (base * backoffFactor(as.successCount, as.failureCount)) \div 100
        pen == IF isFloodWait THEN d10 * FLOOD_WAIT_PENALTY ELSE d10
        unit == 10 * JitterDivisor * 1000
        num == pen * (JitterDivisor * 1000 + u)
        rounded == (num + unit \div 2) \div unit
    IN  IF rounded > 0 THEN rounded ELSE 0

\* calculateDelay, antiSpam.service.ts:36-58; u is the jitter draw in 1/1000.
\* d10 is the delay before jitter in 1/10 ms, num the jittered delay in
\* 1/(10 * JitterDivisor * 1000) ms; Math.round rounds half up.
calculateDelay(as, isFloodWait, u) ==
    LET base == getBaseDelay(as)
        d10 == (base * backoffFactor(as.successCount, as.failureCount)) \div 100
        pen == IF isFloodWait THEN d10 * FLOOD_WAIT_PENALTY ELSE d10
        unit == 10 * JitterDivisor * 1000
        num == pen * (JitterDivisor * 1000 + u)
        rounded == (num + unit \div 2) \div unit
        lower == IF rounded > 0 THEN rounded ELSE 0
    IN  IF lower < MAX_DELAY_MS THEN lower ELSE MAX_DELAY_MS

recordSuccess(as) == [as EXCEPT !.successCount = @ + 1]

recordFailure(as) == [as EXCEPT !.failureCount = @ + 1]

\* reset, antiSpam.service.ts:78-81
reset(as) == [as EXCEPT !.failureCount = 0, !.successCount = 0]

(***************************************************************************)
(* Campaign store (broadcast.service.ts) and progress sink                 *)
(* (progress.service.ts).                                                  *)
(***************************************************************************)
Absent == -1

NoText == <<>>

MetaKeys ==
    {"sent", "failed", "skipped", "failureRate", "error", "totalRecipients",
     "total_recipients", "retry_count", "job_id"}

EmptyMetadata ==
    [sent |-> Absent, failed |-> Absent, skipped |-> Absent, failureRate |-> Absent,
     error |-> NoText, totalRecipients |-> Absent, total_recipients |-> Absent,
     retry_count |-> Absent, job_id |-> Absent]

\* { ...existing, ...metadata }: the fields of the patch overwrite
MergeMetadata(existing, patch) ==
    [k \in MetaKeys |-> IF k \in DOMAIN patch THEN patch[k] ELSE existing[k]]

\* startCampaign, broadcast.service.ts:164-180
startCampaign(c) == [c EXCEPT !.status = "in_progress"]

\* updateCampaignStatus, broadcast.service.ts:182-211; hasMetadata is FALSE when
\* the call passes no metadata, lastSentAt is "null" when it passes none
updateCampaignStatus(c, status, lastSentAt, hasMetadata, patch) ==
    [status |-> status,
     last_sent_at |-> IF lastSentAt # "null" THEN lastSentAt ELSE c.last_sent_at,
     metadata |-> IF hasMetadata THEN MergeMetadata(c.metadata, patch) ELSE EmptyMetadata]

\* the UPDATE statement of updateCampaignStatus, broadcast.service.ts:198-204
updateRow(c, status, lastSentAt, metadataValue) ==
    [status |-> status,
     last_sent_at |-> IF lastSentAt # "null" THEN lastSentAt ELSE c.last_sent_at,
     metadata |-> metadataValue]

NoSnapshot == [status |-> "none"]

\* Math.round((processed / total) * 100), audience.handler.ts:140
progressPercent(processed, total) ==
    IF total > 0 THEN (processed * 200 + total) \div (2 * total) ELSE 0

\* the payload updateProgress hands to saveBroadcastProgress, audience.handler.ts:142-151
Snapshot(status, processed, total, sent_, failed_, skipped_, error) ==
    [status |-> status, progress |-> progressPercent(processed, total),
     processed |-> processed, total |-> total, sent |-> sent_, failed |-> failed_,
     skipped |-> skipped_, error |-> error]

Outcome(recipient, status, errorType) ==
    [recipient |-> recipient, status |-> status, errorType |-> errorType]

(***************************************************************************)
(* Inputs.                                                                 *)
(***************************************************************************)
\* recipient handles; the last one is a handle that spells a taxonomy marker
RecipientPool == { <<Tok("@alice")>>, <<Tok("@"), TokNum("FLOOD_WAIT", 5)>> }

RECURSIVE SeqsUpTo(_, _)
SeqsUpTo(S, n) ==
    IF n = 0 THEN { <<>> }
    ELSE LET shorter == SeqsUpTo(S, n - 1)
         IN  shorter \cup { Append(q, x) : q \in { r \in shorter : Len(r) = n - 1 }, x \in S }

RecipientLists == SeqsUpTo(RecipientPool, MaxRecipients)

\* what client.getInputEntity / client.sendMessage answer: "ok" or the message
\* of the error they raise
TransportErrors ==
    { <<TokNum("FLOOD_WAIT", 2)>>, <<Tok("FLOOD_WAIT")>>, <<Tok("PEER_ID_INVALID")>>,
      <<Tok("SESSION_EXPIRED")>>, <<Tok("Timeout")>> }

AccountAges == {0, 3, 7}

NoError == MkError(NoText)

DbError == MkError(<<Tok("Connection terminated unexpectedly")>>)

RedisError == MkError(<<Tok("Redis connection lost")>>)

ConnectError == MkError(<<Tok("Telegram connection failed")>>)

NoSessionError == MkError(<<Tok("No Telegram session found for user")>>)

RetryableError == MkError(<<Tok("Broadcast failed with retryable errors; will retry")>>)

\* the error sendMessageToRecipient throws, audience.handler.ts:177-180
SendError(recipient, inner) ==
    MkError(<<Tok("Failed to send message to")>> \o recipient \o <<Tok(":")>> \o inner)

(***************************************************************************)
(* State of one invocation of handleBroadcastJob and of its collaborators. *)
(***************************************************************************)
VARIABLES
    pc,             \* position of the handler (the await it is at)
    job,            \* job.data: [recipients]
    idx,            \* index of the recipient the for-of loop is at, 0 before the loop
    processed, sent, failed, skipped, shouldRetry,   \* the loop's locals
    antiSpam,       \* the AntiSpamService instance
    delayCall,      \* the pending calculateDelay call: its argument and its result
    classification, \* classification of the error caught for the current recipient
    innerError,     \* the error bound by the inner catch for the current recipient
    caught,         \* the error bound by the outer catch
    client,         \* the Telegram client: "none", "connected", "disconnected"
    sendCount,      \* transport sends invoked so far
    floodOwed,      \* ms of the last flood-wait not slept yet
    campaign,       \* the campaign row: status, last_sent_at, metadata
    outcomes,       \* broadcast_logs rows of the campaign, in insertion order
    snapshot,       \* the progress sink's value for the campaign
    jobProgress,    \* the job's progress as set by job.progress
    exit,           \* how the invocation ended: [kind, error, result]
    faults          \* collaborator calls that rejected so far

(***************************************************************************)
(* What surrounds the invocation: the broadcast queue, the requests to the *)
(* start and retry routes, and one progress stream.                        *)
(***************************************************************************)
VARIABLES
    queue,          \* waiting jobs of the broadcast queue: [id, recipients, attemptsMade]
    active,         \* the job the worker is processing, NoJob when it is idle
    jobSeq,         \* ids handed out by queue.add so far
    attemptsStarted, \* invocations of the handler started so far for the campaign
    requests,       \* the requests to POST /:id/start and POST /:id/retry, by slot
    stream,         \* the GET /:id/progress stream: its state, what it captured, what it wrote last
    call,           \* the last call of updateCampaignStatus made on its own: its arguments
    sse             \* one run of streamProgress with its sendSnapshot calls in flight

env == <<queue, active, jobSeq, attemptsStarted, requests, stream, call, sse>>

vars == <<pc, job, idx, processed, sent, failed, skipped, shouldRetry, antiSpam, delayCall,
          classification, innerError, caught, client, sendCount, floodOwed, campaign, outcomes,
          snapshot, jobProgress, exit, faults, env>>

locals == <<idx, processed, sent, failed, skipped, shouldRetry, antiSpam, delayCall,
            classification, innerError>>

NoDelay == [isFloodWait |-> FALSE, ms |-> 0]

NoResult == [sent |-> 0, failed |-> 0, skipped |-> 0, success |-> FALSE]

NoExit == [kind |-> "none", error |-> NoError, result |-> NoResult]

total == Len(job.recipients)

NoJob == [id |-> 0, recipients |-> <<>>, attemptsMade |-> 0]

Slots == 1 .. MaxRequests

NoRequest ==
    [kind |-> "none", pc |-> "idle", retryCount |-> 0, jobId |-> 0,
     existing |-> EmptyMetadata]

NoStream == [state |-> "none", status |-> "none", metadata |-> EmptyMetadata,
             written |-> NoSnapshot]

NoCall == [status |-> "none", lastSentAt |-> "null", hasMetadata |-> FALSE,
           patch |-> <<>>]

\* streamProgress not invoked: phase is "first" while the awaited first
\* sendSnapshot is pending and "running" once streamProgress has returned;
\* closed, timer are the locals of part_020:603-604, listening tells that the close
\* listener is registered, pending counts the timer's sendSnapshot calls awaiting
\* the read; clientClosed, ends, wroteLate and written record what happened to the
\* response
NoSse ==
    [phase |-> "none", status |-> "none", metadata |-> EmptyMetadata, closed |-> FALSE,
     timer |-> FALSE, listening |-> FALSE, pending |-> 0, clientClosed |-> FALSE,
     ends |-> 0, wroteLate |-> FALSE, written |-> NoSnapshot]

\* no request, no stream and an empty queue: the invocation on its own
EnvIdle ==
    /\ queue = {}
    /\ active = NoJob
    /\ jobSeq = 0
    /\ attemptsStarted = 0
    /\ requests = [r \in Slots |-> NoRequest]
    /\ stream = NoStream
    /\ call = NoCall
    /\ sse = NoSse

Init ==
    /\ pc = "start"
    /\ job \in [recipients : RecipientLists]
    /\ idx = 0
    /\ processed = 0 /\ sent = 0 /\ failed = 0 /\ skipped = 0
    /\ shouldRetry = FALSE
    /\ antiSpam = NewAntiSpam(0)
    /\ delayCall = NoDelay
    /\ classification = NoClassification
    /\ innerError = NoError
    /\ caught = NoError
    /\ client = "none"
    /\ sendCount = 0
    /\ floodOwed = 0
    /\ campaign = [status |-> "scheduled", last_sent_at |-> "null", metadata |-> EmptyMetadata]
    /\ outcomes = <<>>
    /\ snapshot = NoSnapshot
    /\ jobProgress = 0
    /\ exit = NoExit
    /\ faults = 0
    /\ EnvIdle

\* a collaborator call rejects
Fault == faults < MaxFaults /\ faults' = faults + 1

NoFault == faults' = faults

\* an exception reaches the outer catch, audience.handler.ts:394
Throw(e) == caught' = e /\ pc' = "catch_status"

\* updateProgress, audience.handler.ts:129-152: job.progress, then
\* saveBroadcastProgress, which logs and swallows a failure of the sink
\* (progress.service.ts:34-38).  Without a rejection of job.progress the handler
\* goes on at okPc.
updateProgress(snap, okPc) ==
    \/ /\ NoFault
       /\ jobProgress' = snap.progress
       /\ snapshot' = snap
       /\ pc' = okPc
       /\ caught' = caught
    \/ /\ Fault
       /\ jobProgress' = snap.progress
       /\ snapshot' = snapshot
       /\ pc' = okPc
       /\ caught' = caught
    \/ /\ Fault
       /\ UNCHANGED <<jobProgress, snapshot>>
       /\ Throw(RedisError)

(***************************************************************************)
(* handleBroadcastJob, audience.handler.ts:183-423.                        *)
(***************************************************************************)
\* line 195: await startCampaign({ campaignId })
StartCampaign ==
    /\ pc = "start"
    /\ \/ /\ NoFault
          /\ campaign' = startCampaign(campaign)
          /\ pc' = "init_progress"
          /\ caught' = caught
       \/ /\ Fault
          /\ campaign' = campaign
          /\ Throw(DbError)
    /\ UNCHANGED <<env, job, locals, client, sendCount, floodOwed, outcomes, snapshot,
                   jobProgress, exit>>

\* line 196: await updateProgress(job, campaignId, "initializing", 0, n, 0, 0, 0)
InitProgress ==
    /\ pc = "init_progress"
    /\ updateProgress(Snapshot("initializing", 0, total, 0, 0, 0, NoText), "restore")
    /\ UNCHANGED <<env, job, locals, client, sendCount, floodOwed, campaign, outcomes, exit>>

\* lines 199-204: restoreSession; no row for the user is the missing credential
RestoreSession ==
    /\ pc = "restore"
    /\ \/ /\ NoFault
          /\ pc' = "connect"
          /\ caught' = caught
       \/ /\ NoFault
          /\ Throw(NoSessionError)
       \/ /\ Fault
          /\ Throw(DbError)
    /\ UNCHANGED <<env, job, locals, client, sendCount, floodOwed, campaign, outcomes, snapshot,
                   jobProgress, exit>>

\* lines 207-222: client.connect(), new AntiSpamService({ accountAge }), the locals
Connect ==
    /\ pc = "connect"
    /\ \/ /\ NoFault
          /\ client' = "connected"
          /\ \E age \in AccountAges : antiSpam' = NewAntiSpam(age)
          /\ processed' = 0 /\ sent' = 0 /\ failed' = 0 /\ skipped' = 0
          /\ shouldRetry' = FALSE
          /\ pc' = "sending_progress"
          /\ caught' = caught
       \/ /\ Fault
          /\ UNCHANGED <<client, antiSpam, processed, sent, failed, skipped, shouldRetry>>
          /\ Throw(ConnectError)
    /\ UNCHANGED <<env, job, idx, delayCall, classification, innerError, sendCount, floodOwed,
                   campaign, outcomes, snapshot, jobProgress, exit>>

\* line 224: await updateProgress(job, campaignId, "sending", 0, n, sent, failed, skipped)
SendingProgress ==
    /\ pc = "sending_progress"
    /\ updateProgress(Snapshot("sending", 0, total, sent, failed, skipped, NoText), "loop")
    /\ UNCHANGED <<env, job, locals, client, sendCount, floodOwed, campaign, outcomes, exit>>

\* line 230: antiSpam.calculateDelay() is called without an argument, so that
\* isFloodWait takes its default; floodJustSeen tells whether the previous
\* recipient failed with FLOOD_WAIT
pacingFlag(floodJustSeen) == FALSE

\* the previous recipient of this attempt failed with a FLOOD_WAIT classification
FloodJustSeen ==
    /\ idx >= 1
    /\ Len(outcomes) >= 1
    /\ outcomes[Len(outcomes)].status = "failed"
    /\ outcomes[Len(outcomes)].errorType = "FLOOD_WAIT"

\* variant of NextRecipient: the delay is computed but the send is not held back
\* until it has elapsed
NextRecipient_DelayNotAwaited ==
    /\ pc = "loop"
    /\ idx < total
    /\ idx' = idx + 1
    /\ processed' = processed + 1
    /\ \E u \in JitterDraws :
          delayCall' = [isFloodWait |-> pacingFlag(FloodJustSeen),
                        ms |-> calculateDelay(antiSpam, pacingFlag(FloodJustSeen), u)]
    /\ pc' = "send"
    /\ UNCHANGED <<env, job, sent, failed, skipped, shouldRetry, antiSpam, classification,
                   innerError, caught, client, sendCount, floodOwed, campaign, outcomes,
                   snapshot, jobProgress, exit, faults>>

\* lines 226-231: next recipient; processed += 1; delay = antiSpam.calculateDelay()
NextRecipient ==
    /\ pc = "loop"
    /\ idx < total
    /\ idx' = idx + 1
    /\ processed' = processed + 1
    /\ \E u \in JitterDraws :
          delayCall' = [isFloodWait |-> pacingFlag(FloodJustSeen),
                        ms |-> calculateDelay(antiSpam, pacingFlag(FloodJustSeen), u)]
    /\ pc' = "delay"
    /\ UNCHANGED <<env, job, sent, failed, skipped, shouldRetry, antiSpam, classification,
                   innerError, caught, client, sendCount, floodOwed, campaign, outcomes,
                   snapshot, jobProgress, exit, faults>>

\* line 231: await new Promise((resolve) => setTimeout(resolve, delay))
AwaitDelay ==
    /\ pc = "delay"
    /\ delayCall' = NoDelay
    /\ pc' = "send"
    /\ UNCHANGED <<env, job, idx, processed, sent, failed, skipped, shouldRetry, antiSpam,
                   classification, innerError, caught, client, sendCount, floodOwed, campaign,
                   outcomes, snapshot, jobProgress, exit, faults>>

MsPerSecond == 1000

\* variant of InnerCatch: a transient failure does not set shouldRetry
InnerCatch_NoRetryFlag(err) ==
    LET c == classifyTelegramError(err)
    IN  /\ classification' = c
        /\ innerError' = err
        /\ shouldRetry' = shouldRetry
        /\ IF c.isPermanent
           THEN /\ skipped' = skipped + 1
                /\ failed' = failed
                /\ pc' = "log_skipped"
           ELSE /\ failed' = failed + 1
                /\ skipped' = skipped
                /\ pc' = "log_failed"

\* variant of InnerCatch: a permanent failure is counted as failed as well
InnerCatch_PermanentCountsFailed(err) ==
    LET c == classifyTelegramError(err)
    IN  /\ classification' = c
        /\ innerError' = err
        /\ failed' = failed + 1
        /\ shouldRetry' = TRUE
        /\ IF c.isPermanent
           THEN skipped' = skipped + 1 /\ pc' = "log_skipped"
           ELSE skipped' = skipped /\ pc' = "log_failed"

\* variant of InnerCatch: a SESSION_EXPIRED failure is rethrown to the outer catch
InnerCatch_RethrowsSessionExpired(err) ==
    LET c == classifyTelegramError(err)
    IN  /\ classification' = c
        /\ innerError' = err
        /\ IF c.isPermanent
           THEN /\ skipped' = skipped + 1
                /\ UNCHANGED <<failed, shouldRetry>>
                /\ pc' = "log_skipped"
           ELSE /\ failed' = failed + 1
                /\ shouldRetry' = TRUE
                /\ skipped' = skipped
                /\ pc' = IF c.type = "SESSION_EXPIRED" THEN "catch_status" ELSE "log_failed"

\* lines 246-269: the inner catch up to its first await
InnerCatch(err) ==
    LET c == classifyTelegramError(err)
    IN  /\ classification' = c
        /\ innerError' = err
        /\ IF c.isPermanent
           THEN /\ skipped' = skipped + 1
                /\ UNCHANGED <<failed, shouldRetry>>
                /\ pc' = "log_skipped"
           ELSE /\ failed' = failed + 1
                /\ shouldRetry' = TRUE
                /\ skipped' = skipped
                /\ pc' = "log_failed"

\* lines 233-236: await sendMessageToRecipient(...); recordSuccess; sent += 1
Send ==
    /\ pc = "send"
    /\ sendCount' = sendCount + 1
    /\ \/ /\ antiSpam' = recordSuccess(antiSpam)
          /\ sent' = sent + 1
          /\ pc' = "log_sent"
          /\ floodOwed' = floodOwed
          /\ UNCHANGED <<failed, skipped, shouldRetry, classification, innerError>>
       \/ \E inner \in TransportErrors :
             LET err == SendError(job.recipients[idx], inner)
                 c == classifyTelegramError(err)
             IN  /\ InnerCatch(err)
                 /\ floodOwed' = IF c.isFloodWait
                                 THEN c.floodWaitSeconds * MsPerSecond ELSE floodOwed
                 /\ UNCHANGED <<antiSpam, sent>>
    /\ UNCHANGED <<env, job, idx, processed, delayCall, caught, client, campaign, outcomes,
                   snapshot, jobProgress, exit, faults>>

\* variant of logBroadcastOutcome: a recipient that already has a row gets it replaced
logBroadcastOutcome_Upsert(log, recipient, status, errorType) ==
    IF \E i \in 1..Len(log) : log[i].recipient = recipient
    THEN [i \in 1..Len(log) |->
             IF log[i].recipient = recipient THEN Outcome(recipient, status, errorType)
             ELSE log[i]]
    ELSE Append(log, Outcome(recipient, status, errorType))

\* logBroadcastOutcome, broadcast.service.ts:213-238: one inserted row
logBroadcastOutcome(log, recipient, status, errorType) ==
    Append(log, Outcome(recipient, status, errorType))

\* lines 238-243: await logBroadcastOutcome({ status: "sent" }) inside the inner try
LogSent ==
    /\ pc = "log_sent"
    /\ \/ /\ NoFault
          /\ outcomes' = logBroadcastOutcome(outcomes, job.recipients[idx], "sent", "NONE")
          /\ pc' = "loop_progress"
          /\ UNCHANGED <<failed, skipped, shouldRetry, classification, innerError>>
       \/ /\ Fault
          /\ outcomes' = outcomes
          /\ InnerCatch(DbError)
    /\ UNCHANGED <<env, job, idx, processed, sent, antiSpam, delayCall, caught, client, sendCount,
                   floodOwed, campaign, snapshot, jobProgress, exit>>

\* lines 257-266: await logBroadcastOutcome({ status: "skipped" })
LogSkipped ==
    /\ pc = "log_skipped"
    /\ \/ /\ NoFault
          /\ outcomes' = logBroadcastOutcome(outcomes, job.recipients[idx], "skipped",
                                             classification.type)
          /\ pc' = "loop_progress"
          /\ caught' = caught
       \/ /\ Fault
          /\ outcomes' = outcomes
          /\ Throw(DbError)
    /\ UNCHANGED <<env, job, locals, client, sendCount, floodOwed, campaign, snapshot,
                   jobProgress, exit>>

\* line 282: classification.isFloodWait && classification.floodWaitSeconds
mustSleep(c) == c.isFloodWait /\ c.floodWaitSeconds # 0

\* lines 271-282: await logBroadcastOutcome({ status: "failed" }); recordFailure
LogFailed ==
    /\ pc = "log_failed"
    /\ \/ /\ NoFault
          /\ outcomes' = logBroadcastOutcome(outcomes, job.recipients[idx], "failed",
                                             classification.type)
          /\ antiSpam' = recordFailure(antiSpam)
          /\ pc' = IF mustSleep(classification) THEN "flood_sleep" ELSE "loop_progress"
          /\ caught' = caught
       \/ /\ Fault
          /\ UNCHANGED <<outcomes, antiSpam>>
          /\ Throw(DbError)
    /\ UNCHANGED <<env, job, idx, processed, sent, failed, skipped, shouldRetry, delayCall,
                   classification, innerError, client, sendCount, floodOwed, campaign,
                   snapshot, jobProgress, exit>>

\* variant of waitTime: the seconds are not converted to milliseconds
waitTime_NotScaled(c) == c.floodWaitSeconds

\* line 283: const waitTime = classification.floodWaitSeconds * 1000
waitTime(c) == c.floodWaitSeconds * MsPerSecond

\* line 285: await new Promise((resolve) => setTimeout(resolve, waitTime))
FloodSleep ==
    /\ pc = "flood_sleep"
    /\ floodOwed' = IF waitTime(classification) >= floodOwed
                    THEN 0 ELSE floodOwed - waitTime(classification)
    /\ pc' = "loop_progress"
    /\ UNCHANGED <<env, job, locals, caught, client, sendCount, campaign, outcomes, snapshot,
                   jobProgress, exit, faults>>

\* lines 290-299: await updateProgress(job, campaignId, "sending", processed, n, ...)
LoopProgress ==
    /\ pc = "loop_progress"
    /\ updateProgress(Snapshot("sending", processed, total, sent, failed, skipped, NoText),
                      "loop")
    /\ classification' = NoClassification
    /\ innerError' = NoError
    /\ UNCHANGED <<env, job, idx, processed, sent, failed, skipped, shouldRetry, antiSpam,
                   delayCall, client, sendCount, floodOwed, campaign, outcomes, exit>>

\* line 302: await client.disconnect(), once the loop has run out of recipients
Disconnect ==
    /\ pc = "loop"
    /\ idx = total
    /\ \/ /\ NoFault
          /\ client' = "disconnected"
          /\ pc' = "decide"
          /\ caught' = caught
       \/ /\ Fault
          /\ client' = client
          /\ Throw(ConnectError)
    /\ UNCHANGED <<env, job, locals, sendCount, floodOwed, campaign, outcomes, snapshot,
                   jobProgress, exit>>

\* variant of failureRate: an attempt without any delivery counts as failed entirely
failureRate_NothingSentIsFailure(sent_, failed_) ==
    IF sent_ + failed_ > 0 THEN [num |-> failed_, den |-> sent_ + failed_]
    ELSE [num |-> 1, den |-> 1]

\* line 304: failureRate = sent + failed > 0 ? failed / (sent + failed) : 0, as a fraction
failureRate(sent_, failed_) ==
    IF sent_ + failed_ > 0 THEN [num |-> failed_, den |-> sent_ + failed_]
    ELSE [num |-> 0, den |-> 1]

\* variant of exceedsThreshold: the comparison written >= instead of >
exceedsThreshold_AtLeast(rate) == rate.num * 2 >= rate.den

\* lines 305-307: failureRate > failureThreshold, the threshold being 0.5 = 1/2
exceedsThreshold(rate) == rate.num * 2 > rate.den

\* Math.round(failureRate * 100), line 323
ratePercent(rate) == (rate.num * 200 + rate.den) \div (2 * rate.den)

\* `Failed: ${failureRate * 100}% failure rate`, line 337 (the percentage truncated)
HighFailureText(rate) == <<TokNum("Failed: % failure rate", (rate.num * 100) \div rate.den)>>

HighFailureRateError == <<Tok("High failure rate threshold exceeded")>>

\* lines 304-364: the terminal decision and its status write
Decide ==
    /\ pc = "decide"
    /\ LET rate == failureRate(sent, failed)
       IN  \/ /\ NoFault
              /\ exceedsThreshold(rate)
              /\ campaign' = updateCampaignStatus(campaign, "failed", "date", TRUE,
                                 [sent |-> sent, failed |-> failed, skipped |-> skipped,
                                  failureRate |-> ratePercent(rate),
                                  error |-> HighFailureRateError])
              /\ pc' = "failed_progress"
              /\ caught' = caught
           \/ /\ NoFault
              /\ ~exceedsThreshold(rate)
              /\ campaign' = updateCampaignStatus(campaign, "completed", "date", TRUE,
                                 [sent |-> sent, failed |-> failed, skipped |-> skipped,
                                  totalRecipients |-> total])
              /\ pc' = "completed_progress"
              /\ caught' = caught
           \/ /\ Fault
              /\ campaign' = campaign
              /\ Throw(DbError)
    /\ UNCHANGED <<env, job, locals, client, sendCount, floodOwed, outcomes, snapshot,
                   jobProgress, exit>>

Result(success) == [sent |-> sent, failed |-> failed, skipped |-> skipped, success |-> success]

\* lines 328-351: the `failed` snapshot, then the throw when shouldRetry, else the
\* return of a result with success: false
FailedProgress ==
    /\ pc = "failed_progress"
    /\ LET snap == Snapshot("failed", total, total, sent, failed, skipped,
                            HighFailureText(failureRate(sent, failed)))
       IN  \/ /\ \/ NoFault /\ snapshot' = snap
                 \/ Fault /\ snapshot' = snapshot
              /\ jobProgress' = snap.progress
              /\ IF shouldRetry
                 THEN Throw(RetryableError) /\ exit' = exit
                 ELSE /\ exit' = [kind |-> "returned", error |-> NoError,
                                  result |-> Result(FALSE)]
                      /\ pc' = "done"
                      /\ caught' = caught
           \/ /\ Fault
              /\ UNCHANGED <<jobProgress, snapshot, exit>>
              /\ Throw(RedisError)
    /\ UNCHANGED <<env, job, locals, client, sendCount, floodOwed, campaign, outcomes>>

\* lines 366-375: await updateProgress(job, campaignId, "completed", n, n, ...)
CompletedProgress ==
    /\ pc = "completed_progress"
    /\ updateProgress(Snapshot("completed", total, total, sent, failed, skipped, NoText),
                      "clear")
    /\ UNCHANGED <<env, job, locals, client, sendCount, floodOwed, campaign, outcomes, exit>>

\* lines 377-393: await clearBroadcastProgress(campaignId), which swallows a failure
\* of the sink (progress.service.ts:57-63); return { ..., success: true }
ClearAndReturn ==
    /\ pc = "clear"
    /\ \/ NoFault /\ snapshot' = NoSnapshot
       \/ Fault /\ snapshot' = snapshot
    /\ exit' = [kind |-> "returned", error |-> NoError, result |-> Result(TRUE)]
    /\ pc' = "done"
    /\ UNCHANGED <<env, job, locals, caught, client, sendCount, floodOwed, campaign, outcomes,
                   jobProgress>>

Thrown(e) == [kind |-> "thrown", error |-> e, result |-> NoResult]

\* lines 394-407: catch (error): await updateCampaignStatus({ status: "failed",
\* metadata: { error: err.message } })
CatchStatus ==
    /\ pc = "catch_status"
    /\ \/ /\ NoFault
          /\ campaign' = updateCampaignStatus(campaign, "failed", "null", TRUE,
                                              [error |-> caught.message])
          /\ pc' = "catch_progress"
          /\ exit' = exit
       \/ /\ Fault
          /\ campaign' = campaign
          /\ exit' = Thrown(DbError)
          /\ pc' = "done"
    /\ UNCHANGED <<env, job, locals, caught, client, sendCount, floodOwed, outcomes, snapshot,
                   jobProgress>>

\* lines 409-419: updateProgress(job, campaignId, "failed", n, n, 0, 0, n, err.message):
\* the arguments fill the parameters processed, total, sent, failed, skipped in order
CatchSnapshot == Snapshot("failed", total, total, 0, 0, total, caught.message)

\* lines 409-421: the catch's snapshot, then throw error
CatchProgress ==
    /\ pc = "catch_progress"
    /\ \/ /\ \/ NoFault /\ snapshot' = CatchSnapshot
             \/ Fault /\ snapshot' = snapshot
          /\ jobProgress' = CatchSnapshot.progress
          /\ exit' = Thrown(caught)
       \/ /\ Fault
          /\ UNCHANGED <<jobProgress, snapshot>>
          /\ exit' = Thrown(RedisError)
    /\ pc' = "done"
    /\ UNCHANGED <<env, job, locals, caught, client, sendCount, floodOwed, campaign, outcomes>>

Next ==
    \/ StartCampaign
    \/ InitProgress
    \/ RestoreSession
    \/ Connect
    \/ SendingProgress
    \/ NextRecipient
    \/ AwaitDelay
    \/ Send
    \/ LogSent
    \/ LogSkipped
    \/ LogFailed
    \/ FloodSleep
    \/ LoopProgress
    \/ Disconnect
    \/ Decide
    \/ FailedProgress
    \/ CompletedProgress
    \/ ClearAndReturn
    \/ CatchStatus
    \/ CatchProgress

Spec == Init /\ [][Next]_vars

(***************************************************************************)
(* The campaign's lifecycle: the start and retry routes (routes of         *)
(* /api/broadcast, part_020), the broadcast queue (part_015) with its      *)
(* worker running handleBroadcastJob, and the progress stream.             *)
(***************************************************************************)
\* baseQueueOptions.attempts, part_015:55
JobAttempts == 5

\* the recipients resolveCampaignRecipients returns for the campaign
CampaignRecipients == << <<Tok("@alice")>> >>

\* toNumber(record.retry_count ?? record.retryCount) ?? 0, part_020:498
parseRetryCount(md) == IF md.retry_count = Absent THEN 0 ELSE md.retry_count

\* the snapshot the routes save after scheduling, part_020:219-227 and 289-297
RouteSnapshot(n) ==
    [status |-> "initializing", progress |-> 0, processed |-> 0, total |-> n,
     sent |-> 0, failed |-> 0, skipped |-> 0]

\* the status a route requires of the campaign, part_020:187 and 255
requiredStatus(kind) == IF kind = "start" THEN "draft" ELSE "failed"

\* part_020:186-189 and 254-259: getCampaignForUser, the status check,
\* parseCampaignMetadata
RouteCheck(r, kind) ==
    /\ requests[r].pc = "idle"
    /\ requests' = [requests EXCEPT ![r] =
                      IF campaign.status = requiredStatus(kind)
                      THEN [kind |-> kind, pc |-> "checked",
                            retryCount |-> parseRetryCount(campaign.metadata), jobId |-> 0,
                            existing |-> EmptyMetadata]
                      ELSE [kind |-> kind, pc |-> "rejected", retryCount |-> 0, jobId |-> 0,
                            existing |-> EmptyMetadata]]
    /\ UNCHANGED <<call, sse, pc, job, locals, caught, client, sendCount, floodOwed, campaign, outcomes,
                   snapshot, jobProgress, exit, faults, queue, active, jobSeq,
                   attemptsStarted, stream>>

\* part_020:192-204 and 260-272: resolveCampaignRecipients, the usage counter, addJob
RouteEnqueue(r) ==
    /\ requests[r].pc = "checked"
    /\ jobSeq' = jobSeq + 1
    /\ queue' = queue \cup {[id |-> jobSeq + 1, recipients |-> CampaignRecipients,
                             attemptsMade |-> 0]}
    /\ requests' = [requests EXCEPT ![r].pc = "enqueued", ![r].jobId = jobSeq + 1]
    /\ UNCHANGED <<call, sse, pc, job, locals, caught, client, sendCount, floodOwed, campaign, outcomes,
                   snapshot, jobProgress, exit, faults, active, attemptsStarted, stream>>

\* the metadata the route passes with `scheduled`, part_020:210-216 and 279-286
SchedulePatch(q) ==
    IF q.kind = "start"
    THEN [job_id |-> q.jobId, total_recipients |-> Len(CampaignRecipients)]
    ELSE [job_id |-> q.jobId, retry_count |-> q.retryCount + 1, error |-> NoText,
          total_recipients |-> Len(CampaignRecipients)]

\* part_020:207 and 276 entering updateCampaignStatus: the SELECT of the stored
\* metadata, broadcast.service.ts:187-190, awaited before the UPDATE is sent
RouteSelect(r) ==
    /\ requests[r].pc = "enqueued"
    /\ requests' = [requests EXCEPT ![r].pc = "selected", ![r].existing = campaign.metadata]
    /\ UNCHANGED <<call, sse, pc, job, locals, caught, client, sendCount, floodOwed, campaign, outcomes,
                   snapshot, jobProgress, exit, faults, queue, active, jobSeq,
                   attemptsStarted, stream>>

\* part_020:207-217 and 276-287: the UPDATE of updateCampaignStatus({ status:
\* "scheduled", metadata }), broadcast.service.ts:192 and 198-204, over the
\* metadata the SELECT returned
RouteSchedule(r) ==
    /\ requests[r].pc = "selected"
    /\ campaign' = updateRow(campaign, "scheduled", "null",
                             MergeMetadata(requests[r].existing, SchedulePatch(requests[r])))
    /\ requests' = [requests EXCEPT ![r].pc = "scheduled", ![r].existing = EmptyMetadata]
    /\ UNCHANGED <<call, sse, pc, job, locals, caught, client, sendCount, floodOwed, outcomes,
                   snapshot, jobProgress, exit, faults, queue, active, jobSeq,
                   attemptsStarted, stream>>

\* part_020:219-229 and 289-299: saveBroadcastProgress(initializing), reply 202
RouteSaveProgress(r) ==
    /\ requests[r].pc = "scheduled"
    /\ snapshot' = RouteSnapshot(Len(CampaignRecipients))
    /\ requests' = [requests EXCEPT ![r].pc = "done"]
    /\ UNCHANGED <<call, sse, pc, job, locals, caught, client, sendCount, floodOwed, campaign, outcomes,
                   jobProgress, exit, faults, queue, active, jobSeq, attemptsStarted, stream>>

\* part_002:20: the worker takes a waiting job and invokes handleBroadcastJob
Dequeue ==
    /\ active = NoJob
    /\ pc = "idle"
    /\ attemptsStarted < MaxAttemptsStarted
    /\ \E j \in queue :
          /\ queue' = queue \ {j}
          /\ active' = j
          /\ job' = [recipients |-> j.recipients]
    /\ attemptsStarted' = attemptsStarted + 1
    /\ pc' = "start"
    /\ idx' = 0
    /\ processed' = 0 /\ sent' = 0 /\ failed' = 0 /\ skipped' = 0
    /\ shouldRetry' = FALSE
    /\ antiSpam' = NewAntiSpam(0)
    /\ delayCall' = NoDelay
    /\ classification' = NoClassification
    /\ innerError' = NoError
    /\ caught' = NoError
    /\ client' = "none"
    /\ sendCount' = 0
    /\ floodOwed' = 0
    /\ jobProgress' = 0
    /\ exit' = NoExit
    /\ UNCHANGED <<call, sse, campaign, outcomes, snapshot, faults, jobSeq, requests, stream>>

\* one step of the invocation the worker is running
Attempt ==
    /\ active # NoJob
    /\ Next

\* part_015:52-63: a job whose handler threw waits for its next attempt while it
\* has attempts left (attempts: 5); a job whose handler returned is removed
Settle ==
    /\ active # NoJob
    /\ pc = "done"
    /\ queue' = IF exit.kind = "thrown" /\ active.attemptsMade + 1 < JobAttempts
                THEN queue \cup {[active EXCEPT !.attemptsMade = @ + 1]}
                ELSE queue
    /\ active' = NoJob
    /\ pc' = "idle"
    /\ UNCHANGED <<call, sse, job, locals, caught, client, sendCount, floodOwed, campaign, outcomes,
                   snapshot, jobProgress, exit, faults, jobSeq, attemptsStarted, requests,
                   stream>>

\* TERMINAL_PROGRESS_STATUSES, part_020:26
TERMINAL_PROGRESS_STATUSES == {"completed", "failed"}

\* toNumber(...) ?? 0 of parseCampaignMetadata, part_020:511-513
numberOrZero(v) == IF v = Absent THEN 0 ELSE v

\* record.total_recipients ?? record.totalRecipients, then ?? 0, part_020:497 and 643
fallbackTotal(md) ==
    IF md.total_recipients # Absent THEN md.total_recipients
    ELSE numberOrZero(md.totalRecipients)

Min(a, b) == IF a <= b THEN a ELSE b

\* buildFallbackProgressSnapshot, part_020:639-673, from the campaign status and
\* the metadata the stream captured
buildFallbackProgressSnapshot(status, md) ==
    LET n == fallbackTotal(md)
        sent_ == numberOrZero(md.sent)
        failed_ == numberOrZero(md.failed)
        skipped_ == numberOrZero(md.skipped)
        done == Min(n, sent_ + failed_ + skipped_)
        st == CASE status = "in_progress" -> "sending"
                [] status = "completed" -> "completed"
                [] status = "failed" -> "failed"
                [] OTHER -> "initializing"
    IN  [status |-> st,
         progress |-> IF st \in TERMINAL_PROGRESS_STATUSES THEN 100
                      ELSE Min(100, progressPercent(done, n)),
         processed |-> done, total |-> n, sent |-> sent_, failed |-> failed_,
         skipped |-> skipped_, error |-> md.error]

\* part_020:323-327: GET /:id/progress reads the campaign once and hands the row
\* and its metadata to streamProgress
StreamOpen ==
    /\ stream.state = "none"
    /\ stream' = [state |-> "open", status |-> campaign.status,
                  metadata |-> campaign.metadata, written |-> NoSnapshot]
    /\ UNCHANGED <<call, sse, pc, job, locals, caught, client, sendCount, floodOwed, campaign, outcomes,
                   snapshot, jobProgress, exit, faults, queue, active, jobSeq,
                   attemptsStarted, requests>>

\* what sendSnapshot writes: the sink's snapshot, else the fallback, part_020:611
streamSnapshot(read) ==
    IF read # NoSnapshot THEN read
    ELSE buildFallbackProgressSnapshot(stream.status, stream.metadata)

\* sendSnapshot, part_020:606-621, on the first call and on every timer tick;
\* readBroadcastProgress answers null when the sink rejects (progress.service.ts:51-54)
StreamTick ==
    /\ stream.state = "open"
    /\ \E read \in {snapshot, NoSnapshot} :
          /\ IF read = snapshot THEN NoFault ELSE Fault
          /\ stream' = [stream EXCEPT
                          !.written = streamSnapshot(read),
                          !.state = IF streamSnapshot(read).status
                                        \in TERMINAL_PROGRESS_STATUSES
                                    THEN "ended" ELSE "open"]
    /\ UNCHANGED <<call, sse, pc, job, locals, caught, client, sendCount, floodOwed, campaign, outcomes,
                   snapshot, jobProgress, exit, queue, active, jobSeq, attemptsStarted,
                   requests>>

\* part_020:630-635: the client closes the connection
StreamClose ==
    /\ stream.state = "open"
    /\ stream' = [stream EXCEPT !.state = "closed"]
    /\ UNCHANGED <<call, sse, pc, job, locals, caught, client, sendCount, floodOwed, campaign, outcomes,
                   snapshot, jobProgress, exit, faults, queue, active, jobSeq,
                   attemptsStarted, requests>>

\* a created campaign (status draft, metadata.total_recipients set at part_020:155)
\* with no request made yet and an idle worker
CampaignCreated ==
    /\ pc = "idle"
    /\ job = [recipients |-> <<>>]
    /\ idx = 0
    /\ processed = 0 /\ sent = 0 /\ failed = 0 /\ skipped = 0
    /\ shouldRetry = FALSE
    /\ antiSpam = NewAntiSpam(0)
    /\ delayCall = NoDelay
    /\ classification = NoClassification
    /\ innerError = NoError
    /\ caught = NoError
    /\ client = "none"
    /\ sendCount = 0
    /\ floodOwed = 0
    /\ campaign = [status |-> "draft", last_sent_at |-> "null",
                   metadata |-> [EmptyMetadata EXCEPT
                                   !.total_recipients = Len(CampaignRecipients)]]
    /\ outcomes = <<>>
    /\ snapshot = NoSnapshot
    /\ jobProgress = 0
    /\ exit = NoExit
    /\ EnvIdle

\* the routes, the queue and the worker, explored without rejecting collaborators
\* (those are the subject of Spec)
LifeInit == CampaignCreated /\ faults = MaxFaults

LifeNext ==
    \/ \E r \in Slots, kind \in {"start", "retry"} : RouteCheck(r, kind)
    \/ \E r \in Slots : RouteEnqueue(r)
    \/ \E r \in Slots : RouteSelect(r)
    \/ \E r \in Slots : RouteSchedule(r)
    \/ \E r \in Slots : RouteSaveProgress(r)
    \/ Dequeue
    \/ Attempt
    \/ Settle

LifeSpec == LifeInit /\ [][LifeNext]_vars

\* one start request, the queue and the worker, and one progress stream
StreamInit == LifeInit

\* what the server does by itself once a request or a stream exists
StreamProgram ==
    \/ RouteEnqueue(1)
    \/ RouteSelect(1)
    \/ RouteSchedule(1)
    \/ RouteSaveProgress(1)
    \/ Dequeue
    \/ Attempt
    \/ Settle
    \/ StreamTick

StreamNext ==
    \/ RouteCheck(1, "start")
    \/ StreamOpen
    \/ StreamClose
    \/ StreamProgram

\* every step the server has pending is eventually taken; the client is free
\* never to make a request and never to close the stream
StreamSpec == StreamInit /\ [][StreamNext]_vars /\ WF_vars(StreamProgram)

(***************************************************************************)
(* Properties.                                                             *)
(***************************************************************************)
ReachedDecision == pc \in {"failed_progress", "completed_progress"}

\* C1: the status the terminal decision writes is `failed` exactly when
\* failed / (sent + failed) > 0.5 (0 when sent + failed = 0) and `completed`
\* otherwise; and an attempt in which no collaborator call rejected and every
\* recipient was processed ends with that status.
C1_TerminalDecision ==
    /\ [][(pc = "decide" /\ ReachedDecision')
            => /\ campaign'.status \in {"failed", "completed"}
               /\ campaign'.status = "failed"
                    <=> (sent + failed > 0 /\ 2 * failed > sent + failed)]_vars
    /\ [](pc = "done" /\ faults = 0 /\ client = "disconnected"
            => /\ campaign.status \in {"failed", "completed"}
               /\ campaign.status = "failed"
                    <=> (sent + failed > 0 /\ 2 * failed > sent + failed))

\* a run with exactly 50% failures has been written `completed`
C1_Witness ==
    /\ pc = "completed_progress"
    /\ sent = 1 /\ failed = 1
    /\ campaign.status = "completed"

\* C2: the handler returns a result only with success = TRUE, the campaign
\* `completed` and the counters it ran up; whenever the failure rate exceeds 0.5
\* or an error reached the outer catch, it ends by throwing.
C2_ReturnsOnlyOnSuccess ==
    /\ exit.kind = "returned"
         => /\ exit.result = [sent |-> sent, failed |-> failed, skipped |-> skipped,
                              success |-> TRUE]
            /\ campaign.status = "completed"
            /\ ~(2 * failed > sent + failed)
    /\ (pc = "done" /\ (caught # NoError \/ 2 * failed > sent + failed))
         => exit.kind = "thrown"
    /\ pc = "done" <=> exit.kind # "none"

\* a run over the failure threshold ended by throwing, the campaign `failed`
C2_Witness ==
    /\ exit.kind = "thrown"
    /\ exit.error = RetryableError
    /\ campaign.status = "failed"
    /\ 2 * failed > sent + failed

PermanentTypes == {"PEER_ID_INVALID", "USER_RESTRICTED", "USER_IS_BOT", "CHAT_WRITE_FORBIDDEN"}

\* C3: a recipient whose send failed with a permanent classification increments
\* skipped only, by one; until the loop moves on, failed and the pacing
\* controller's counters stay as they are, and the only outcome appended for the
\* recipient is a `skipped` one.
C3_PermanentIsSkippedOnly ==
    /\ [][(classification.type \notin PermanentTypes
             /\ classification'.type \in PermanentTypes)
            => /\ skipped' = skipped + 1
               /\ failed' = failed
               /\ antiSpam' = antiSpam
               /\ outcomes' = outcomes
               /\ pc' = "log_skipped"]_vars
    /\ [][classification.type \in PermanentTypes
            => /\ skipped' = skipped
               /\ failed' = failed
               /\ antiSpam' = antiSpam
               /\ \/ outcomes' = outcomes
                  \/ outcomes' = Append(outcomes,
                                        Outcome(job.recipients[idx], "skipped",
                                                classification.type))]_vars
    /\ [](pc = "loop_progress" /\ classification.type \in PermanentTypes
            => outcomes[Len(outcomes)].status = "skipped")

\* a PEER_ID_INVALID recipient has been logged as skipped, nothing counted failed
C3_Witness ==
    /\ pc = "loop_progress"
    /\ classification.type = "PEER_ID_INVALID"
    /\ skipped = 1 /\ failed = 0
    /\ antiSpam.failureCount = 0
    /\ Len(outcomes) = 1 /\ outcomes[1].status = "skipped"

InLoopBody == pc \in {"delay", "send", "log_sent", "log_skipped", "log_failed", "flood_sleep",
                      "loop_progress"}

\* C4: processed is 1 more for each recipient the loop has taken up, and every
\* snapshot the handler wrote has processed = sent + failed + skipped.
C4_ProcessedIsSum ==
    /\ (InLoopBody \/ pc = "loop") => processed = idx
    /\ snapshot # NoSnapshot
         => snapshot.processed = snapshot.sent + snapshot.failed + snapshot.skipped

\* C5: with no stored session for the owner, an attempt in which no collaborator
\* call rejected ends with no send invoked, the campaign `failed` with the error
\* message in its metadata, that error thrown, and a `failed` snapshot with
\* processed = total = failed = the number of recipients.
C5_MissingCredential ==
    (pc = "done" /\ caught = NoSessionError /\ faults = 0)
      => /\ sendCount = 0
         /\ campaign.status = "failed"
         /\ campaign.metadata.error = NoSessionError.message
         /\ exit = Thrown(NoSessionError)
         /\ snapshot.status = "failed"
         /\ snapshot.processed = total
         /\ snapshot.total = total
         /\ snapshot.failed = total

\* C6: whenever the handler ended by throwing, the campaign's status is `failed`
\* and the error thrown is the one that reached the outer catch.
C6_FailedBeforeRethrow ==
    exit.kind = "thrown" => campaign.status = "failed" /\ exit.error = caught

\* C7: transport send errors never abort the loop: as long as no collaborator
\* call rejected, an attempt that opened its session leaves the loop only after
\* every recipient was processed, with one send and one outcome per recipient.
C7_SendErrorsNeverAbort ==
    /\ (faults = 0 /\ client # "none" /\ pc \in {"catch_status", "catch_progress", "done"})
         => /\ client = "disconnected"
            /\ processed = total
            /\ sendCount = total
            /\ Len(outcomes) = total
    /\ pc = "decide" => processed = total /\ sendCount = total

\* the terminal decision is reached although every send of the list failed
C7_Witness ==
    /\ pc = "decide"
    /\ faults = 0
    /\ total >= 2
    /\ sent = 0 /\ failed >= 1 /\ skipped >= 1
    /\ processed = total

\* C8: an invocation that opened the messaging session has closed it when it ends.
C8_SessionClosedOnExit ==
    (pc = "done" /\ client # "none") => client = "disconnected"

\* the seconds a FLOOD_WAIT text asks for: the number of its first FLOOD_WAIT_<n>,
\* 30 when it has none
ExpectedFloodSeconds(text) ==
    LET numbered == {i \in 1..Len(text) : text[i].w = "FLOOD_WAIT" /\ text[i].n >= 0}
    IN  IF numbered = {} THEN 30
        ELSE text[CHOOSE i \in numbered : \A j \in numbered : i <= j].n

\* C9: after a send failed with a FLOOD_WAIT classification the loop sleeps
\* floodWaitSeconds (the number parsed from the error text, 30 without a number)
\* before the next send of the attempt: no send is invoked while part of the
\* wait is still owed.
C9_FloodWaitObeyed ==
    /\ [][sendCount' = sendCount + 1 => floodOwed = 0]_vars
    /\ [][pc = "flood_sleep"
            => pc' = "loop_progress" /\ floodOwed' = 0 /\ sendCount' = sendCount]_vars
    /\ [](classification.isFloodWait
            => /\ classification.floodWaitSeconds = ExpectedFloodSeconds(innerError.message)
               /\ pc \in {"log_failed", "flood_sleep"}
                    => floodOwed = classification.floodWaitSeconds * 1000)
    /\ [][(pc = "log_failed" /\ classification.isFloodWait /\ pc' # "catch_status")
            => pc' = "flood_sleep"]_vars

\* the second send is about to be invoked after the FLOOD_WAIT of the first was slept
C9_Witness ==
    /\ pc = "send"
    /\ sendCount = 1
    /\ outcomes[1].errorType = "FLOOD_WAIT"
    /\ floodOwed = 0

\* C10: the delay awaited before a send is computed with the flood-wait flag set
\* exactly when the previous recipient of the attempt failed with FLOOD_WAIT.
C10_PenaltyAfterFloodWait ==
    pc = "delay" => delayCall.isFloodWait = FloodJustSeen

(***************************************************************************)
(* The classifier and the pacing controller on their own: the inputs are   *)
(* drawn by the initial state, each action is one call.                    *)
(***************************************************************************)
\* what the calls below leave alone
rest == <<job, idx, processed, sent, failed, skipped, shouldRetry, caught, client, sendCount,
          floodOwed, campaign, outcomes, snapshot, jobProgress, exit, faults, env>>

Parked ==
    /\ job = [recipients |-> <<>>]
    /\ idx = 0
    /\ processed = 0 /\ sent = 0 /\ failed = 0 /\ skipped = 0
    /\ shouldRetry = FALSE
    /\ caught = NoError
    /\ client = "none"
    /\ sendCount = 0
    /\ floodOwed = 0
    /\ outcomes = <<>>
    /\ snapshot = NoSnapshot
    /\ jobProgress = 0
    /\ exit = NoExit
    /\ faults = 0

AtRest ==
    /\ Parked
    /\ campaign = [status |-> "scheduled", last_sent_at |-> "null", metadata |-> EmptyMetadata]
    /\ EnvIdle

\* words of an error text: the markers of the taxonomy, with and without a
\* number of seconds, and a word that is no marker
ErrorTokens ==
    { Tok("FLOOD_WAIT"), TokNum("FLOOD_WAIT", 7), TokNum("FLOOD_WAIT", 0),
      Tok("PEER_ID_INVALID"), Tok("USER_RESTRICTED"), Tok("USER_IS_BOT"),
      Tok("SESSION_EXPIRED"), Tok("AUTH_KEY_UNREGISTERED"), Tok("CHAT_WRITE_FORBIDDEN"),
      Tok("Timeout") }

\* the errors given to the classifier: errorMessage absent or one word, message
\* of up to MaxTextLen words
ErrorInputs ==
    [errorMessage : SeqsUpTo(ErrorTokens, 1), message : SeqsUpTo(ErrorTokens, MaxTextLen)]

ClassifyInit ==
    /\ AtRest
    /\ pc = "classify"
    /\ innerError \in ErrorInputs
    /\ classification = NoClassification
    /\ antiSpam = NewAntiSpam(0)
    /\ delayCall = NoDelay

\* audience.handler.ts:247: classification = classifyTelegramError(error); the
\* same error may be classified again
Classify ==
    /\ pc \in {"classify", "classified"}
    /\ classification' = classifyTelegramError(innerError)
    /\ pc' = "classified"
    /\ UNCHANGED <<rest, innerError, antiSpam, delayCall>>

ClassifyNext == Classify

ClassifySpec == ClassifyInit /\ [][ClassifyNext]_vars

\* account ages of a pacing controller, in days
PaceAges == {NotConfigured, 0, 1, 3, 6, 7, 8, 30}

\* jitter draws of a call on its own: the ends of Math.random()'s range and
\* values between them
PaceJitterDraws == JitterDraws \cup {-500, 500}

\* new AntiSpamService(config)
PaceInit ==
    /\ AtRest
    /\ pc = "new"
    /\ antiSpam \in { NewAntiSpam(a) : a \in PaceAges }
    /\ delayCall = NoDelay
    /\ innerError = NoError
    /\ classification = NoClassification

PaceRecordSuccess ==
    /\ antiSpam.successCount + antiSpam.failureCount < MaxHistory
    /\ antiSpam' = recordSuccess(antiSpam)
    /\ pc' = "recorded"
    /\ UNCHANGED <<rest, delayCall, innerError, classification>>

PaceRecordFailure ==
    /\ antiSpam.successCount + antiSpam.failureCount < MaxHistory
    /\ antiSpam' = recordFailure(antiSpam)
    /\ pc' = "recorded"
    /\ UNCHANGED <<rest, delayCall, innerError, classification>>

PaceReset ==
    /\ antiSpam' = reset(antiSpam)
    /\ pc' = "reset"
    /\ UNCHANGED <<rest, delayCall, innerError, classification>>

\* a call of getBaseDelay(); delayCall.ms holds what it returned
PaceGetBaseDelay ==
    /\ delayCall' = [isFloodWait |-> FALSE, ms |-> getBaseDelay(antiSpam)]
    /\ pc' = "base"
    /\ UNCHANGED <<rest, antiSpam, innerError, classification>>

\* a call of calculateDelay(isFloodWait); delayCall holds the flag and the result
PaceCalculateDelay ==
    /\ \E isFloodWait \in BOOLEAN, u \in PaceJitterDraws :
          delayCall' = [isFloodWait |-> isFloodWait,
                        ms |-> calculateDelay(antiSpam, isFloodWait, u)]
    /\ pc' = "delay"
    /\ UNCHANGED <<rest, antiSpam, innerError, classification>>

PaceNext ==
    \/ PaceRecordSuccess
    \/ PaceRecordFailure
    \/ PaceReset
    \/ PaceGetBaseDelay
    \/ PaceCalculateDelay

PaceSpec == PaceInit /\ [][PaceNext]_vars

(***************************************************************************)
(* updateCampaignStatus on its own, broadcast.service.ts:182-211.          *)
(***************************************************************************)
CampaignStatuses == {"draft", "scheduled", "in_progress", "completed", "failed"}

\* metadata of a stored campaign: as created, as scheduled, and as left by a
\* failed attempt that was retried
StoredMetadata ==
    { [EmptyMetadata EXCEPT !.total_recipients = 2],
      [EmptyMetadata EXCEPT !.total_recipients = 2, !.job_id = 1],
      [EmptyMetadata EXCEPT !.total_recipients = 2, !.job_id = 2, !.retry_count = 1,
                            !.sent = 1, !.failed = 1, !.skipped = 0, !.failureRate = 50,
                            !.error = HighFailureRateError] }

\* the metadata patches the callers pass: the outer catch (audience.handler.ts:406),
\* the completed path (359-364), the start route (part_020:210-216) and the retry
\* route (part_020:279-286)
MetadataPatches ==
    { [error |-> DbError.message],
      [sent |-> 2, failed |-> 0, skipped |-> 0, totalRecipients |-> 2],
      [job_id |-> 3, total_recipients |-> 2],
      [job_id |-> 3, retry_count |-> 2, error |-> NoText, total_recipients |-> 2] }

StoreInit ==
    /\ Parked
    /\ EnvIdle
    /\ pc = "store"
    /\ campaign \in [status : CampaignStatuses, last_sent_at : {"null", "date"},
                      metadata : StoredMetadata]
    /\ antiSpam = NewAntiSpam(0)
    /\ delayCall = NoDelay
    /\ innerError = NoError
    /\ classification = NoClassification

\* one call updateCampaignStatus({ campaignId, status, lastSentAt, metadata })
StoreUpdate ==
    /\ pc \in {"store", "updated"}
    /\ \E status \in CampaignStatuses, lastSentAt \in {"null", "later"},
          hasMetadata \in BOOLEAN, patch \in MetadataPatches :
          /\ call' = [status |-> status, lastSentAt |-> lastSentAt,
                       hasMetadata |-> hasMetadata,
                       patch |-> IF hasMetadata THEN patch ELSE <<>>]
          /\ campaign' = updateCampaignStatus(campaign, status, lastSentAt, hasMetadata, patch)
    /\ pc' = "updated"
    /\ UNCHANGED <<job, idx, processed, sent, failed, skipped, shouldRetry, caught, client,
                   sendCount, floodOwed, outcomes, snapshot, jobProgress, exit, faults,
                   queue, active, jobSeq, attemptsStarted, requests, stream, sse, antiSpam,
                   delayCall, innerError, classification>>

StoreNext == StoreUpdate

StoreSpec == StoreInit /\ [][StoreNext]_vars

(***************************************************************************)
(* streamProgress on its own: its calls of sendSnapshot, each suspended at *)
(* the awaited progress read, the interval timer and the client's close,   *)
(* next to a sink that the worker writes.                                  *)
(***************************************************************************)
\* what the stream leaves alone
sseRest == <<pc, job, locals, caught, client, sendCount, floodOwed, campaign, outcomes,
             jobProgress, exit, faults, queue, active, jobSeq, attemptsStarted, requests,
             stream, call>>

\* the snapshots the sink holds in turn for a campaign with one recipient: the
\* route's (part_020:219-227), then the handler's (audience.handler.ts:218, 290, 366)
SinkSnapshots ==
    << RouteSnapshot(1),
       Snapshot("sending", 0, 1, 0, 0, 0, NoText),
       Snapshot("sending", 1, 1, 1, 0, 0, NoText),
       Snapshot("completed", 1, 1, 1, 0, 0, NoText) >>

SseInit ==
    /\ Parked
    /\ EnvIdle
    /\ pc = "sse"
    /\ campaign \in [status : {"scheduled", "in_progress", "completed"},
                      last_sent_at : {"null"},
                      metadata : {[EmptyMetadata EXCEPT !.total_recipients = 1]}]
    /\ antiSpam = NewAntiSpam(0)
    /\ delayCall = NoDelay
    /\ innerError = NoError
    /\ classification = NoClassification

\* saveBroadcastProgress by the route or the worker while the stream runs
SseSinkWrite ==
    /\ \E i \in 1..Len(SinkSnapshots) :
          /\ snapshot = IF i = 1 THEN NoSnapshot ELSE SinkSnapshots[i - 1]
          /\ snapshot' = SinkSnapshots[i]
    /\ UNCHANGED <<sseRest, sse>>

\* part_020:597-607 and 623: streamProgress starts its first sendSnapshot, which
\* finds closed false and suspends at the read of line 610
SseOpen ==
    /\ sse.phase = "none"
    /\ sse' = [NoSse EXCEPT !.phase = "first", !.status = campaign.status,
                            !.metadata = campaign.metadata]
    /\ UNCHANGED <<sseRest, snapshot>>

\* (await readBroadcastProgress(...)) ?? buildFallbackProgressSnapshot(...), part_020:610
sseSnapshot(read) ==
    IF read # NoSnapshot THEN read
    ELSE buildFallbackProgressSnapshot(sse.status, sse.metadata)

\* sendSnapshot from the point where its read has answered, part_020:611-620:
\* reply.raw.write, and for a terminal snapshot closed = true, clearInterval,
\* reply.raw.end()
sendSnapshotResume(s, snap) ==
    LET terminal == snap.status \in TERMINAL_PROGRESS_STATUSES
    IN  [s EXCEPT !.written = snap,
                  !.wroteLate = @ \/ s.clientClosed \/ s.ends > 0,
                  !.closed = @ \/ terminal,
                  !.timer = @ /\ ~terminal,
                  !.ends = IF terminal THEN @ + 1 ELSE @]

\* part_020:623-636: the first sendSnapshot finishes and streamProgress goes on;
\* the timer and the close listener exist only from here, and only if closed is
\* still false
SseFirstReturns ==
    /\ sse.phase = "first"
    /\ LET s == sendSnapshotResume(sse, sseSnapshot(snapshot))
       IN  sse' = [s EXCEPT !.phase = "running", !.timer = ~s.closed,
                            !.listening = ~s.closed]
    /\ UNCHANGED <<sseRest, snapshot>>

\* part_020:626-628: the interval fires and calls sendSnapshot, which passes the
\* test of closed (line 607) and suspends at the read; earlier calls may still be
\* suspended there
SseTimerTick ==
    /\ sse.timer
    /\ ~sse.closed
    /\ sse.pending < MaxPending
    /\ sse' = [sse EXCEPT !.pending = @ + 1]
    /\ UNCHANGED <<sseRest, snapshot>>

\* the read of a sendSnapshot started by the timer answers, part_020:610-620
SseReadReturns ==
    /\ sse.pending > 0
    /\ sse' = sendSnapshotResume([sse EXCEPT !.pending = @ - 1], sseSnapshot(snapshot))
    /\ UNCHANGED <<sseRest, snapshot>>

\* the client closes the connection before the server ended the response; the
\* listener of part_020:630-635 runs if it is registered
SseClientClose ==
    /\ sse.phase # "none"
    /\ ~sse.clientClosed
    /\ sse.ends = 0
    /\ sse' = [sse EXCEPT !.clientClosed = TRUE,
                          !.closed = @ \/ sse.listening,
                          !.timer = @ /\ ~sse.listening]
    /\ UNCHANGED <<sseRest, snapshot>>

SseNext ==
    \/ SseSinkWrite
    \/ SseOpen
    \/ SseFirstReturns
    \/ SseTimerTick
    \/ SseReadReturns
    \/ SseClientClose

SseSpec == SseInit /\ [][SseNext]_vars

(***************************************************************************)
(* Properties of the lifecycle.                                            *)
(***************************************************************************)
\* every request has been answered, no job waits and the worker is idle
Quiescent ==
    /\ active = NoJob
    /\ queue = {}
    /\ \A r \in Slots : requests[r].pc \in {"idle", "done", "rejected"}

\* the last invocation returned success: true after marking the campaign completed
CompletedSuccessfully == exit.kind = "returned" /\ exit.result.success

\* C11: once a delivery attempt has completed successfully and the requests to
\* the start and retry routes have been answered, the progress sink holds no
\* snapshot of the campaign.
C11_NoSnapshotAfterSuccess ==
    (Quiescent /\ CompletedSuccessfully) => snapshot = NoSnapshot

\* delivery attempts of the campaign that wait in the queue or run
InFlight == Cardinality(queue) + (IF active # NoJob THEN 1 ELSE 0)

\* C12: at any time at most one delivery attempt of the campaign is queued or
\* running.
C12_AtMostOneInFlight == InFlight <= 1

\* the status changes the lifecycle allows: draft -> scheduled -> in_progress ->
\* {completed, failed}, and failed -> scheduled by a retry
AllowedTransitions ==
    { <<"draft", "scheduled">>, <<"scheduled", "in_progress">>,
      <<"in_progress", "completed">>, <<"in_progress", "failed">>,
      <<"failed", "scheduled">> }

\* C13: the campaign status changes only along the lifecycle's edges: in_progress
\* is entered only from scheduled, scheduled is never written over in_progress or
\* completed, and completed is never left.
C13_StatusFollowsLifecycle ==
    [][campaign'.status # campaign.status
          => <<campaign.status, campaign'.status>> \in AllowedTransitions]_vars

\* C14 (re-run by the queue): when a single enqueued job has been attempted k
\* times, k >= 1, the campaign's retry_count is k - 1.
C14_RetryCountCountsAttempts ==
    (Quiescent /\ jobSeq = 1 /\ attemptsStarted >= 1)
        => parseRetryCount(campaign.metadata) = attemptsStarted - 1

(***************************************************************************)
(* Properties of progress reporting, classification and pacing.            *)
(***************************************************************************)
\* C15: a failure of progress reporting never reaches the handler's outer catch:
\* the attempt is not aborted by it and its terminal status is not changed.
C15_ProgressFailureSwallowed == caught # RedisError

\* C16: an attempt over an empty recipient list invokes no transport send and
\* appends no outcome, computes a failure rate of 0, and, unless an exception
\* reaches the outer catch, marks the campaign completed with sent = failed =
\* skipped = 0 and returns success = true.
C16_EmptyListCompletes ==
    total = 0 =>
        /\ sendCount = 0
        /\ outcomes = <<>>
        /\ pc \in {"decide", "failed_progress", "completed_progress", "clear", "done"}
              => failureRate(sent, failed).num = 0
        /\ pc # "failed_progress"
        /\ (pc = "done" /\ caught = NoError) =>
              /\ campaign.status = "completed"
              /\ campaign.metadata.sent = 0
              /\ campaign.metadata.failed = 0
              /\ campaign.metadata.skipped = 0
              /\ campaign.metadata.totalRecipients = 0
              /\ exit = [kind |-> "returned", error |-> NoError,
                         result |-> [sent |-> 0, failed |-> 0, skipped |-> 0,
                                     success |-> TRUE]]

C16_Witness ==
    /\ total = 0
    /\ pc = "done"
    /\ exit.kind = "returned"
    /\ exit.result.success
    /\ campaign.status = "completed"

\* err.errorMessage || err.message || "", the text that is classified
errorText(err) == IF err.errorMessage # <<>> THEN err.errorMessage ELSE err.message

PermanentKinds == {"PEER_ID_INVALID", "USER_RESTRICTED", "USER_IS_BOT", "CHAT_WRITE_FORBIDDEN"}

Taxonomy == {"FLOOD_WAIT", "SESSION_EXPIRED", "UNKNOWN"} \cup PermanentKinds

\* the seconds of the first FLOOD_WAIT_<n> of the text, 30 when there is none
floodSecondsOf(text) ==
    LET numbered == { i \in 1..Len(text) : text[i].w = "FLOOD_WAIT" /\ text[i].n # NoNum }
    IN  IF numbered = {} THEN 30
        ELSE text[CHOOSE i \in numbered : \A j \in numbered : i <= j].n

\* C17: the classification is a function of the error text alone and is one kind
\* of the closed taxonomy: FLOOD_WAIT (flood wait, not permanent, with its
\* seconds) whenever the text contains FLOOD_WAIT; otherwise a permanent kind
\* whose marker the text contains, or SESSION_EXPIRED (not permanent); otherwise
\* UNKNOWN (not permanent); isFloodWait only for FLOOD_WAIT, and never together
\* with isPermanent.
C17_ClosedTaxonomy ==
    pc = "classified" =>
        LET text == errorText(innerError)
            c == classification
        IN  /\ c = classifyTelegramError(MkError(text))
            /\ c.type \in Taxonomy
            /\ includes(text, "FLOOD_WAIT") =>
                  /\ c.type = "FLOOD_WAIT"
                  /\ c.floodWaitSeconds = floodSecondsOf(text)
            /\ c.type = "FLOOD_WAIT" => includes(text, "FLOOD_WAIT")
            /\ c.isFloodWait <=> c.type = "FLOOD_WAIT"
            /\ c.isPermanent <=> c.type \in PermanentKinds
            /\ c.type \in PermanentKinds => includes(text, c.type)
            /\ c.type = "SESSION_EXPIRED" =>
                  includes(text, "SESSION_EXPIRED") \/ includes(text, "AUTH_KEY_UNREGISTERED")
            /\ c.type = "UNKNOWN" <=>
                  /\ ~includes(text, "FLOOD_WAIT")
                  /\ ~includes(text, "SESSION_EXPIRED")
                  /\ ~includes(text, "AUTH_KEY_UNREGISTERED")
                  /\ \A k \in PermanentKinds : ~includes(text, k)
            /\ ~(c.isPermanent /\ c.isFloodWait)

\* classifying the same error again gives the same classification
C17_Deterministic ==
    [][(pc = "classified" /\ pc' = "classified") => classification' = classification]_vars

\* a text holding FLOOD_WAIT_7 next to a permanent marker is classified FLOOD_WAIT
C17_Witness ==
    /\ pc = "classified"
    /\ includes(errorText(innerError), "FLOOD_WAIT")
    /\ includes(errorText(innerError), "PEER_ID_INVALID")
    /\ classification.type = "FLOOD_WAIT"
    /\ classification.floodWaitSeconds = 7

\* C18: getBaseDelay returns 1000 ms when the account age is 0 or not configured,
\* 750 ms when it is between 0 and 7 days, 500 ms from 7 days on, whatever
\* successes and failures have been recorded.
C18_BaseDelayByAge ==
    pc = "base" =>
        delayCall.ms = IF antiSpam.accountAge \in {NotConfigured, 0} THEN 1000
                       ELSE IF antiSpam.accountAge < 7 THEN 750
                       ELSE 500

\* a young account with failures recorded
C18_Witness ==
    /\ pc = "base"
    /\ antiSpam.accountAge = 6
    /\ antiSpam.failureCount >= 2
    /\ delayCall.ms = 750

\* C19: calculateDelay returns an integer within [0, 5000] for every account
\* age, every history of recordSuccess / recordFailure / reset calls, both
\* values of the flood-wait flag and every jitter draw.
C19_DelayWithinBounds == pc = "delay" => delayCall.ms \in 0 .. 5000

\* the clamp bites: a new account, only failures recorded, the flood-wait flag set
C19_Witness ==
    /\ pc = "delay"
    /\ delayCall.isFloodWait
    /\ antiSpam.accountAge = 0
    /\ antiSpam.failureCount >= 1
    /\ antiSpam.successCount = 0
    /\ delayCall.ms = 5000

(***************************************************************************)
(* Properties of the progress stream.                                      *)
(***************************************************************************)
\* the attempt has completed, the campaign is marked completed, its snapshot is
\* cleared and nothing of the request or the queue is pending
AttemptCompleted ==
    /\ Quiescent
    /\ CompletedSuccessfully
    /\ campaign.status = "completed"
    /\ snapshot = NoSnapshot

\* C20: a progress stream that is open when the campaign's attempt has completed
\* and its snapshot is cleared eventually writes a terminal snapshot and ends the
\* response, unless the client closes the connection first.
C20_StreamEndsAfterCompletion ==
    (stream.state = "open" /\ AttemptCompleted) ~> (stream.state \in {"ended", "closed"})

(***************************************************************************)
(* Properties of the recipient loop and of the outcome log.                *)
(***************************************************************************)
AfterSend == {"log_sent", "log_skipped", "log_failed"}

\* C21: within one invocation the recipients are handled one at a time in list
\* order: the loop awaits the pacing delay (also before the first send), then
\* invokes the transport send for the recipient it is at, then appends the
\* outcome, then writes the `sending` snapshot, and only then takes the next
\* recipient; a send is invoked only once the previous recipient is done.
C21_StrictlySequential ==
    [][/\ sendCount' # sendCount =>
             /\ pc = "send"
             /\ sendCount' = sendCount + 1
             /\ sendCount' = idx
             /\ idx' = idx
       /\ idx' # idx => pc = "loop" /\ idx' = idx + 1 /\ pc' = "delay" /\ sendCount = idx
       /\ (pc' = "send" /\ pc # "send") => pc = "delay"
       /\ pc = "send" => pc' \in AfterSend
       /\ (pc' = "loop_progress" /\ pc # "loop_progress") =>
             /\ pc \in AfterSend \cup {"flood_sleep"}
             /\ Len(outcomes') >= 1
             /\ outcomes'[Len(outcomes')].recipient = job.recipients[idx]
       /\ (pc' = "loop" /\ pc # "loop") => pc \in {"sending_progress", "loop_progress"}
      ]_vars

\* the second recipient of a list has been sent to and its outcome appended
C21_Witness ==
    /\ pc = "loop_progress"
    /\ idx = 2
    /\ sendCount = 2
    /\ Len(outcomes) = 2

IsPrefix(a, b) == Len(a) <= Len(b) /\ \A i \in 1..Len(a) : a[i] = b[i]

C23_TerminalProgressIs100 ==
    (snapshot # NoSnapshot /\ snapshot.status \in {"completed", "failed"})
        => snapshot.progress = 100

\* C24: a call of updateCampaignStatus sets the status, sets last_sent_at when
\* the call supplies it, sets the metadata fields its patch names, and leaves
\* every other metadata field as it was, also when it supplies no patch.
C24_OnlyPatchedFieldsChange ==
    [][pc' = "updated" =>
          /\ campaign'.status = call'.status
          /\ campaign'.last_sent_at =
                IF call'.lastSentAt # "null" THEN call'.lastSentAt ELSE campaign.last_sent_at
          /\ \A k \in MetaKeys :
                campaign'.metadata[k] =
                   IF k \in DOMAIN call'.patch THEN call'.patch[k] ELSE campaign.metadata[k]
      ]_vars

\* outcome rows with the given status
RowsWithStatus(st) == Cardinality({ i \in 1..Len(outcomes) : outcomes[i].status = st })

\* C25: a recipient whose send succeeded is counted in `sent` only: the counters
\* and the pacing controller's history hold at most one entry per recipient
\* taken so far, and no more `failed` rows exist than recipients whose send did
\* not succeed.
C25_SucceededSendCountedOnce ==
    /\ sent + failed + skipped <= idx
    /\ antiSpam.successCount + antiSpam.failureCount <= idx
    /\ antiSpam.successCount = sent
    /\ RowsWithStatus("failed") <= idx - sent

\* C26: when an attempt in which no collaborator call rejected ends by the
\* high-failure-rate decision, the snapshot left in the progress sink has status
\* failed and carries the attempt's counters.
C26_FailedSnapshotKeepsCounters ==
    (pc = "done" /\ faults = 0 /\ campaign.metadata.failureRate # Absent) =>
        /\ snapshot.status = "failed"
        /\ snapshot.sent = sent
        /\ snapshot.failed = failed
        /\ snapshot.skipped = skipped

\* the transport error inside the message sendMessageToRecipient built for a recipient
transportErrorOf(recipient, err) ==
    SubSeq(err.message, Len(recipient) + 3, Len(err.message))

\* the inner catch holds an error thrown by sendMessageToRecipient
SendFailed ==
    /\ pc \in {"log_failed", "log_skipped"}
    /\ innerError.message # <<>>
    /\ Head(innerError.message) = Tok("Failed to send message to")

\* C27: a failed send is classified by its transport error alone: whatever the
\* recipient's handle, the classification is the one the same transport error gets
\* when the recipient is @alice.
C27_ClassifiedByTransportErrorAlone ==
    SendFailed =>
        classification =
            classifyTelegramError(
                SendError(<<Tok("@alice")>>,
                          transportErrorOf(job.recipients[idx], innerError)))

\* C28: when a route's updateCampaignStatus overlaps the worker's (a single job
\* has been enqueued), the route's UPDATE loses nothing the worker stored: every
\* metadata field its patch does not name keeps the value the row holds.
C28_NoLostMetadataUpdate ==
    [][\A r \in Slots :
          (jobSeq = 1 /\ requests[r].pc = "selected" /\ requests'[r].pc = "scheduled")
              => \A k \in MetaKeys \ DOMAIN SchedulePatch(requests[r]) :
                    campaign'.metadata[k] = campaign.metadata[k]]_vars

\* C29: a campaign whose status is completed carries no error cause in its
\* metadata: neither the error text nor the failure rate of an earlier attempt.
C29_CompletedCarriesNoError ==
    campaign.status = "completed" =>
        /\ campaign.metadata.error = NoText
        /\ campaign.metadata.failureRate = Absent

\* C30: streamProgress never writes to the response after it ended it or after
\* the client closed the connection, and it ends the response at most once.
C30_NoWriteAfterEndOrClose ==
    /\ ~sse.wroteLate
    /\ sse.ends <= 1
====
